---------------------------- MODULE Spec2Model ----------------------------
(***************************************************************************)
(* A model of mimic_utils/parsers.py: the categorical parsers              *)
(* (parse_gender, parse_race, parse_language, parse_insurance,             *)
(* parse_careunit, parse_time), the year-anchor resolver                   *)
(* (parse_anchor_year) and the BMI classifier (parse_bmi).                 *)
(*                                                                         *)
(* Text is modelled by TLA+ strings, taken apart character by character    *)
(* with Len, SubSeq and \o.  A float is a record [nan, num, den]: an exact *)
(* rational or NaN (floating-point rounding is not modelled).  A call is   *)
(* a run of the state machine: the call itself, one step per iteration of  *)
(* the function's loop (or per row of Series.apply), and the return.       *)
(***************************************************************************)
EXTENDS Integers, Sequences, FiniteSets, TLC

VARIABLES
    pc,             \* "idle", "loop" (in the function's loop), "done", "raised"
    fn,             \* the function being run
    values,         \* its input batch
    na_truthy,      \* whether str.contains leaves NaN (truthy in np.where) for a missing value
    mapped_values,  \* parse_<field>: the array the mapping loop overwrites
    step,           \* index of the next mapping rule / the next row of apply
    impute_heights, \* parse_bmi's flag
    delta,          \* parse_anchor_year: the delta column
    temp,           \* parse_bmi: the copied frame with its bmi column
    applied,        \* Series.apply / DataFrame.apply: the outputs of the rows done so far
    exception,      \* the exception the call raised ("" when none)
    result          \* the returned batch (<<>> until the return, and after a raise)

vars == <<pc, fn, values, na_truthy, mapped_values, step, impute_heights, delta, temp,
          applied, exception, result>>

(***************************************************************************)
(* Bounds of the model.                                                    *)
(***************************************************************************)
\* longest batch (number of rows) passed to a parser
MaxBatch == 2
\* parse_anchor_year: |date.year - anchor_year| is at most MaxShift
MaxShift == 2
\* parse_bmi.__parse__ applied alone: BMI from BmiLo to BmiHi hundredths
BmiLo == 1500
BmiHi == 3100

(***************************************************************************)
(* Text.                                                                   *)
(***************************************************************************)
\* a missing text value (None / NaN in an object column)
NaN == "<NaN>"

UpperCase == "ABCDEFGHIJKLMNOPQRSTUVWXYZ"
LowerCase == "abcdefghijklmnopqrstuvwxyz"
Digits == "0123456789"

Char(s, i) == SubSeq(s, i, i)

IndexIn(alphabet, c) ==
    IF \E j \in 1..Len(alphabet) : Char(alphabet, j) = c
    THEN CHOOSE j \in 1..Len(alphabet) : Char(alphabet, j) = c
    ELSE 0

\* str.lower(), one character
lower_char(c) ==
    IF IndexIn(UpperCase, c) > 0 THEN Char(LowerCase, IndexIn(UpperCase, c)) ELSE c

RECURSIVE lower(_)
\* str.lower(): character by character (computed by halves)
lower(s) ==
    IF Len(s) <= 1 THEN lower_char(s)
    ELSE lower(SubSeq(s, 1, Len(s) \div 2)) \o lower(SubSeq(s, Len(s) \div 2 + 1, Len(s)))

\* the Python test: p in s
str_in(p, s) ==
    \E i \in 1..(Len(s) - Len(p) + 1) : SubSeq(s, i, i + Len(p) - 1) = p

\* str.split(sep), sep one character: the pieces between the separators
split(s, sep) ==
    LET cuts == {0} \cup {i \in 1..Len(s) : Char(s, i) = sep} \cup {Len(s) + 1}
        cut(k) == CHOOSE c \in cuts : Cardinality({d \in cuts : d < c}) = k - 1
    IN  [k \in 1..(Cardinality(cuts) - 1) |-> SubSeq(s, cut(k) + 1, cut(k + 1) - 1)]

(***************************************************************************)
(* The regular expressions of the mapping tables: alternations of          *)
(* parenthesised literals, "(A)|(B)", a bare literal "M", and the escaped  *)
(* literal "(\?)".                                                         *)
(***************************************************************************)
RECURSIVE unescape(_)
\* a literal without its escapes: "\\?" is the character "?"
unescape(s) ==
    IF ~str_in("\\", s) THEN s
    ELSE IF Char(s, 1) = "\\" /\ Len(s) >= 2
         THEN Char(s, 2) \o unescape(SubSeq(s, 3, Len(s)))
         ELSE Char(s, 1) \o unescape(SubSeq(s, 2, Len(s)))

\* the literal a branch "(LITERAL)" of an alternation matches
branch_literal(b) ==
    IF Len(b) >= 2 /\ Char(b, 1) = "(" /\ Char(b, Len(b)) = ")"
    THEN unescape(SubSeq(b, 2, Len(b) - 1))
    ELSE unescape(b)

\* the literals a regular expression of the tables matches
alternatives(regexp) ==
    LET bs == split(regexp, "|") IN {branch_literal(bs[j]) : j \in 1..Len(bs)}

(***************************************************************************)
(* The mapping tables, in dictionary (insertion) order.                    *)
(***************************************************************************)
gender_mapping_swapped ==
    << [key |-> "M", regexp |-> "Male"],
       [key |-> "F", regexp |-> "Female"] >>

gender_mapping ==
    << [key |-> "Male", regexp |-> "M"],
       [key |-> "Female", regexp |-> "F"] >>

race_mapping ==
    << [key |-> "White", regexp |-> "(WHITE)|(PORTUGUESE)"],
       [key |-> "Hispanic", regexp |-> "(HISPANIC)"],
       [key |-> "Asian", regexp |-> "(ASIAN)"],
       [key |-> "Black", regexp |-> "(BLACK)"],
       [key |-> "Other", regexp |-> "(OTHER)|(SOUTH AMERICAN)|(CARIBBEAN ISLAND)|(NATIVE HAWAIIAN OR OTHER PACIFIC ISLANDER)|(AMERICAN INDIAN/ALASKA NATIVE FEDERALLY RECOGNIZED TRIBE)"] >>

language_mapping ==
    << [key |-> "English", regexp |-> "(ENGLISH)"],
       [key |-> "Other", regexp |-> "(\\?)"] >>

insurance_mapping ==
    << [key |-> "Medicaid", regexp |-> "(Medicaid)"],
       [key |-> "Medicare", regexp |-> "(Medicare)"],
       [key |-> "Other", regexp |-> "(Other)"] >>

careunit_mapping ==
    << [key |-> "Medical-Surgical", regexp |-> "(Medical Intensive Care Unit)|(Medical/Surgical Intensive Care Unit)|(Surgical Intensive Care Unit)"],
       [key |-> "Cardiac", regexp |-> "(Cardiac Vascular Intensive Care Unit)|(Coronary Care Unit)"],
       [key |-> "Neuro-Trauma", regexp |-> "(Neuro Intermediate)|(Neuro Stepdown)|(Neuro Surgical Intensive Care Unit)|(Trauma SICU)"] >>

time_mapping ==
    << [key |-> "00-06", item |-> <<0, 6>>],
       [key |-> "06-12", item |-> <<6, 12>>],
       [key |-> "12-18", item |-> <<12, 18>>],
       [key |-> "18-24", item |-> <<18, 24>>] >>

TextParsers == {"parse_gender", "parse_race", "parse_language", "parse_insurance", "parse_careunit"}

mapping(f) ==
    CASE f = "parse_gender" -> gender_mapping
      [] f = "parse_race" -> race_mapping
      [] f = "parse_language" -> language_mapping
      [] f = "parse_insurance" -> insurance_mapping
      [] f = "parse_careunit" -> careunit_mapping
      [] f = "parse_time" -> time_mapping

\* every regular expression of the tables with the literals it matches
AllRegexps ==
    UNION {{mapping(f)[j].regexp : j \in 1..Len(mapping(f))} : f \in TextParsers}
    \cup {gender_mapping_swapped[j].regexp : j \in 1..2}

CompiledRegexps == [r \in AllRegexps |-> alternatives(r)]

(***************************************************************************)
(* pandas and numpy.                                                       *)
(***************************************************************************)
\* re.search(regexp, v) with flags=re.IGNORECASE
re_search_ignorecase(regexp, v) ==
    \E lit \in CompiledRegexps[regexp] : str_in(lower(lit), lower(v))

\* re.search(regexp, v): case=True is str.contains' default
re_search(regexp, v) ==
    \E lit \in CompiledRegexps[regexp] : str_in(lit, v)

\* Series.str.contains(regexp) as np.where reads it: one truth value per row.
\* A missing value gives NaN, which np.where takes for true, or False,
\* by the column's dtype and the pandas version (na).
str_contains(vals, regexp, na) ==
    [j \in 1..Len(vals) |-> IF vals[j] = NaN THEN na ELSE re_search(regexp, vals[j])]

\* np.empty(n) * np.nan
nan_array(n) == [j \in 1..n |-> NaN]

\* the conversion of a float or str element into np.where's str result
as_str(x) == IF x = NaN THEN "nan" ELSE x

\* a first-match variant: rows already labelled are left alone
np_where_keep_first(cond, key, arr) ==
    [j \in 1..Len(arr) |-> IF cond[j] /\ as_str(arr[j]) = "nan" THEN key ELSE as_str(arr[j])]

\* np.where(cond, key, arr), key a str: the result is a str array
np_where(cond, key, arr) ==
    [j \in 1..Len(arr) |-> IF cond[j] THEN key ELSE as_str(arr[j])]

\* Series.replace(old, new)
replace(arr, old, new) ==
    [j \in 1..Len(arr) |-> IF arr[j] = old THEN new ELSE arr[j]]

(***************************************************************************)
(* Floats and timestamps.                                                  *)
(***************************************************************************)
RECURSIVE gcd(_, _)
gcd(a, b) == IF b = 0 THEN a ELSE gcd(b, a % b)

\* the float n/d (n >= 0, d > 0), kept in lowest terms
Float(n, d) == [nan |-> FALSE, num |-> n \div gcd(n, d), den |-> d \div gcd(n, d)]
FNaN == [nan |-> TRUE, num |-> 0, den |-> 1]

Timestamp(h, m) == [nat |-> FALSE, hour |-> h, minute |-> m]
NaT == [nat |-> TRUE, hour |-> 0, minute |-> 0]

\* pd.to_datetime(values).dt.hour
dt_hour(t) == IF t.nat THEN FNaN ELSE Float(t.hour, 1)

\* Series.between(left, right) with both ends excluded
between_exclusive(x, left, right) ==
    ~x.nan /\ x.num > left * x.den /\ x.num < right * x.den

\* Series.between(left, right): inclusive="both" is the default
between(x, left, right) ==
    ~x.nan /\ x.num >= left * x.den /\ x.num <= right * x.den

(***************************************************************************)
(* The inputs.                                                             *)
(***************************************************************************)
Batches(S) == UNION {[1..n -> S] : n \in 0..MaxBatch}

GenderValues == {"M", "F", "MALE", "FEMALE", "Female", "male", "unknown", NaN}
GenderScenario == <<"MALE", "Female", "unknown">>

RaceValues ==
    {"WHITE", "White", "white", "WHITE - OTHER EUROPEAN", "PORTUGUESE",
     "HISPANIC/LATINO", "ASIAN - CHINESE", "BLACK/CARIBBEAN ISLAND",
     "UNKNOWN", "MARTIAN", NaN}

LanguageValues == {"ENGLISH", "English", "?", "ENGLISH?", "SPANISH", NaN}

InsuranceValues == {"Medicaid", "Medicare", "Other", "Medicare or Medicaid", "Private", NaN}

CareunitValues ==
    {"Medical Intensive Care Unit (MICU)",
     "Medical/Surgical Intensive Care Unit (MICU/SICU)",
     "Neuro Surgical Intensive Care Unit (Neuro SICU)",
     "Coronary Care Unit (CCU)", "coronary care unit (ccu)", "CORONARY CARE UNIT (CCU)",
     "Trauma SICU (TSICU)", "Medicine", NaN}

TimeValues == {Timestamp(h, 30) : h \in 0..23} \cup {Timestamp(6, 0), Timestamp(18, 0), NaT}

(***************************************************************************)
(* Initially no call is running.                                           *)
(***************************************************************************)
Init ==
    /\ pc = "idle"
    /\ fn = "none"
    /\ values = <<>>
    /\ na_truthy = FALSE
    /\ mapped_values = <<>>
    /\ step = 1
    /\ impute_heights = FALSE
    /\ delta = <<>>
    /\ temp = <<>>
    /\ applied = <<>>
    /\ exception = ""
    /\ result = <<>>

\* the functions are pure: a behaviour is one call, from the idle state to its end
CanCall == pc = "idle"

\* lines 15, 37, 59, 75, 125, 149: mapped_values = np.empty(values.shape[0]) * np.nan
BeginMapping(f, batch, na) ==
    /\ pc' = "loop"
    /\ fn' = f
    /\ values' = batch
    /\ na_truthy' = na
    /\ mapped_values' = nan_array(Len(batch))
    /\ step' = 1
    /\ impute_heights' = FALSE
    /\ delta' = <<>>
    /\ temp' = <<>>
    /\ applied' = <<>>
    /\ exception' = ""
    /\ result' = <<>>

parse_gender ==
    /\ CanCall
    /\ \E batch \in Batches(GenderValues) \cup {GenderScenario}, na \in BOOLEAN :
           BeginMapping("parse_gender", batch, na)

parse_race ==
    /\ CanCall
    /\ \E batch \in Batches(RaceValues), na \in BOOLEAN : BeginMapping("parse_race", batch, na)

parse_language ==
    /\ CanCall
    /\ \E batch \in Batches(LanguageValues), na \in BOOLEAN : BeginMapping("parse_language", batch, na)

parse_insurance ==
    /\ CanCall
    /\ \E batch \in Batches(InsuranceValues), na \in BOOLEAN : BeginMapping("parse_insurance", batch, na)

parse_careunit ==
    /\ CanCall
    /\ \E batch \in Batches(CareunitValues), na \in BOOLEAN : BeginMapping("parse_careunit", batch, na)

parse_time ==
    /\ CanCall
    /\ \E batch \in Batches(TimeValues) : BeginMapping("parse_time", batch, FALSE)

\* for key, regexp in mapping.items():
\*     mapped_values = np.where(values.str.contains(regexp), key, mapped_values)
MappingLoop ==
    /\ pc = "loop"
    /\ fn \in TextParsers
    /\ step <= Len(mapping(fn))
    /\ mapped_values' =
           np_where(str_contains(values, mapping(fn)[step].regexp, na_truthy),
                    mapping(fn)[step].key, mapped_values)
    /\ step' = step + 1
    /\ UNCHANGED <<pc, fn, values, na_truthy, impute_heights, delta, temp, applied, exception, result>>

\* for key, item in mapping.items():
\*     values = pd.to_datetime(values)
\*     mapped_values = np.where(values.dt.hour.between(*item), key, mapped_values)
TimeLoop ==
    /\ pc = "loop"
    /\ fn = "parse_time"
    /\ step <= Len(time_mapping)
    /\ mapped_values' =
           np_where([j \in 1..Len(values) |->
                        between(dt_hour(values[j]), time_mapping[step].item[1],
                                time_mapping[step].item[2])],
                    time_mapping[step].key, mapped_values)
    /\ step' = step + 1
    /\ UNCHANGED <<pc, fn, values, na_truthy, impute_heights, delta, temp, applied, exception, result>>

\* what each parser returns once its loop is over
returned(f, arr) ==
    CASE f = "parse_gender" -> replace(arr, "nan", "Other")
      [] f = "parse_race" -> replace(arr, "nan", "Unknown")
      [] f = "parse_time" -> [j \in 1..Len(arr) |-> as_str(arr[j])]
      [] OTHER -> arr

ReturnMapped ==
    /\ pc = "loop"
    /\ fn \in TextParsers \cup {"parse_time"}
    /\ step > Len(mapping(fn))
    /\ result' = returned(fn, mapped_values)
    /\ pc' = "done"
    /\ UNCHANGED <<fn, values, na_truthy, mapped_values, step, impute_heights, delta, temp,
                   applied, exception>>

(***************************************************************************)
(* parse_anchor_year.                                                      *)
(***************************************************************************)
RECURSIVE lstrip(_, _)
lstrip(s, chars) ==
    IF s # "" /\ str_in(Char(s, 1), chars) THEN lstrip(SubSeq(s, 2, Len(s)), chars) ELSE s

RECURSIVE rstrip(_, _)
rstrip(s, chars) ==
    IF s # "" /\ str_in(Char(s, Len(s)), chars)
    THEN rstrip(SubSeq(s, 1, Len(s) - 1), chars) ELSE s

\* str.strip(chars): strip("") strips nothing
strip(s, chars) == lstrip(rstrip(s, chars), chars)

RECURSIVE digits_value(_, _)
digits_value(s, acc) ==
    IF s = "" THEN acc
    ELSE digits_value(SubSeq(s, 2, Len(s)), 10 * acc + IndexIn(Digits, Char(s, 1)) - 1)

\* int(s), s decimal digits between optional blanks
int(s) == digits_value(strip(s, " "), 0)

\* line 99 with the last year of the group in place of the first
anchor_offset_last(x) == int(strip(split(x, "-")[2], "")) + 1

\* line 99: lambda x: int(x.split("-")[0].strip(""))+1
anchor_offset(x) == int(strip(split(x, "-")[1], "")) + 1

\* line 100: delta = anchor_year_group + (date.dt.year - anchor_year)
row_delta(row) == anchor_offset(row.anchor_year_group) + (row.date.year - row.anchor_year)

delta_anchors == << <<2008, 2011>>, <<2011, 2014>>, <<2014, 2017>>, <<2017, 2020>>, <<2020, 2023>> >>

\* delta in range(start, stop) with the start excluded and the stop included
in_range_shifted(d, da) == da[1] < d /\ d <= da[2]

\* delta in range(*da)
in_range(d, da) == da[1] <= d /\ d < da[2]

\* f"{da[0]} - {da[1]}"
anchor_label(da) == ToString(da[1]) \o " - " \o ToString(da[2])

\* the local variable output before its first assignment
Unbound == "<unbound>"

RECURSIVE anchor_loop(_, _, _)
\* for da in delta_anchors: if delta in range(*da): output = ...
anchor_loop(d, j, output) ==
    IF j > Len(delta_anchors) THEN output
    ELSE anchor_loop(d, j + 1,
                     IF in_range(d, delta_anchors[j]) THEN anchor_label(delta_anchors[j])
                     ELSE output)

\* anchor_delta(delta): the value of output at "return output"
anchor_delta(d) == anchor_loop(d, 1, Unbound)

AnchorYearGroups == {"2008 - 2010", "2011 - 2013", "2014 - 2016", "2017 - 2019", "2020 - 2022"}
\* the anchor year of the scenario of the specification
AnchorYears == {2018}

AnchorRows ==
    {[anchor_year_group |-> g, date |-> [year |-> a + d, month |-> 7], anchor_year |-> a] :
        g \in AnchorYearGroups, a \in AnchorYears, d \in (0 - MaxShift)..MaxShift}

\* lines 99-100, up to delta.apply(anchor_delta)
parse_anchor_year ==
    /\ CanCall
    /\ \E batch \in Batches(AnchorRows) :
        /\ pc' = "loop"
        /\ fn' = "parse_anchor_year"
        /\ values' = batch
        /\ delta' = [j \in 1..Len(batch) |-> row_delta(batch[j])]
        /\ step' = 1
        /\ UNCHANGED <<na_truthy, mapped_values, impute_heights, temp, applied, exception, result>>

\* delta.apply(anchor_delta), one row: "return output" with output unbound
\* raises UnboundLocalError, which ends the apply and the call
ApplyAnchorDelta ==
    /\ pc = "loop"
    /\ fn = "parse_anchor_year"
    /\ step <= Len(delta)
    /\ IF anchor_delta(delta[step]) = Unbound
       THEN /\ pc' = "raised"
            /\ exception' = "UnboundLocalError"
            /\ UNCHANGED <<applied, step>>
       ELSE /\ applied' = Append(applied, anchor_delta(delta[step]))
            /\ step' = step + 1
            /\ UNCHANGED <<pc, exception>>
    /\ UNCHANGED <<fn, values, na_truthy, mapped_values, impute_heights, delta, temp, result>>

(***************************************************************************)
(* parse_bmi.  Floats are exact rationals with a positive denominator.     *)
(***************************************************************************)
\* a < b and a >= b on floats: every comparison with NaN is false
flt(a, b) == ~a.nan /\ ~b.nan /\ a.num * b.den < b.num * a.den
fge(a, b) == ~a.nan /\ ~b.nan /\ a.num * b.den >= b.num * a.den

\* a * b, and a / n for a positive integer n
fmul(a, b) == IF a.nan \/ b.nan THEN FNaN ELSE Float(a.num * b.num, a.den * b.den)
fdiv(a, n) == IF a.nan THEN FNaN ELSE Float(a.num, a.den * n)

\* a ** -2, a positive
fpow_minus2(a) == IF a.nan THEN FNaN ELSE Float(a.den * a.den, a.num * a.num)

RECURSIVE sum_present(_, _)
\* the sum of the floats of hs[1..j] that are not NaN
sum_present(hs, j) ==
    IF j = 0 THEN Float(0, 1)
    ELSE IF hs[j].nan THEN sum_present(hs, j - 1)
         ELSE LET t == sum_present(hs, j - 1)
              IN  Float(t.num * hs[j].den + hs[j].num * t.den, t.den * hs[j].den)

count_present(hs) == Cardinality({j \in 1..Len(hs) : ~hs[j].nan})

\* a mean that takes a missing height for 0 and divides by the number of rows
mean_over_all_rows(hs) ==
    IF Len(hs) = 0 THEN FNaN ELSE fdiv(sum_present(hs, Len(hs)), Len(hs))

\* Series.mean(): skipna=True is the default; NaN when nothing is present
mean(hs) ==
    IF count_present(hs) = 0 THEN FNaN
    ELSE fdiv(sum_present(hs, Len(hs)), count_present(hs))

\* Series.fillna(value)
fillna(hs, value) == [j \in 1..Len(hs) |-> IF hs[j].nan THEN value ELSE hs[j]]

\* lines 176-177
imputed_heights(rows, impute) ==
    LET hs == [j \in 1..Len(rows) |-> rows[j].height]
    IN  IF impute THEN fillna(hs, mean(hs)) ELSE hs

\* line 180: temp.weight * ((temp.height.astype(float) / 100) ** -2)
bmi_of(weight, height) == fmul(weight, fpow_minus2(fdiv(height, 100)))

\* lines 183-207: __parse__(bmi_and_race)
parse_row(bmi_and_race) ==
    LET bmi == bmi_and_race.bmi
        ethnicity == bmi_and_race.race
    IN  IF flt(bmi, Float(165, 10)) THEN "Severly Underweight"
        ELSE IF fge(bmi, Float(165, 10)) /\ flt(bmi, Float(185, 10)) THEN "Underweight"
        ELSE IF fge(bmi, Float(185, 10))
             THEN IF str_in("asian", lower(ethnicity))
                  THEN IF fge(bmi, Float(185, 10)) /\ flt(bmi, Float(230, 10)) THEN "Normal"
                       ELSE IF fge(bmi, Float(230, 10)) /\ flt(bmi, Float(250, 10))
                            THEN "Overweight"
                       ELSE IF fge(bmi, Float(250, 10)) THEN "Obesity"
                       ELSE Unbound
                  ELSE IF fge(bmi, Float(185, 10)) /\ flt(bmi, Float(250, 10)) THEN "Normal"
                       ELSE IF fge(bmi, Float(250, 10)) /\ flt(bmi, Float(300, 10))
                            THEN "Overweight"
                       ELSE IF fge(bmi, Float(300, 10)) THEN "Obesity"
                       ELSE Unbound
        ELSE "Unknown or Unavailable"

Ethnicities == {"ASIAN", "Asian", "SOUTH EAST ASIAN", "WHITE", "Caucasian"}

\* batches of rows with whole weights (kg) and heights (cm), a height possibly missing
BmiRows ==
    {[weight |-> Float(w, 1), height |-> h, race |-> e] :
        w \in {45, 74, 100}, h \in {Float(160, 1), Float(200, 1), FNaN}, e \in {"ASIAN", "WHITE"}}

\* one row 200 cm tall of b/25 kg: its BMI is b hundredths
BmiScan ==
    {[weight |-> Float(b, 25), height |-> Float(200, 1), race |-> e] :
        b \in BmiLo..BmiHi, e \in Ethnicities}

\* lines 174-180, up to temp.apply(__parse__, axis=1)
parse_bmi ==
    /\ CanCall
    /\ \E batch \in Batches(BmiRows) \cup {<<r>> : r \in BmiScan}, impute \in BOOLEAN :
        /\ pc' = "loop"
        /\ fn' = "parse_bmi"
        /\ values' = batch
        /\ impute_heights' = impute
        /\ temp' = [j \in 1..Len(batch) |->
                      [weight |-> batch[j].weight,
                       height |-> imputed_heights(batch, impute)[j],
                       race |-> batch[j].race,
                       bmi |-> bmi_of(batch[j].weight, imputed_heights(batch, impute)[j])]]
        /\ step' = 1
        /\ UNCHANGED <<na_truthy, mapped_values, delta, applied, exception, result>>

\* temp.apply(__parse__, axis=1), one row
ApplyParse ==
    /\ pc = "loop"
    /\ fn = "parse_bmi"
    /\ step <= Len(temp)
    /\ applied' = Append(applied, parse_row(temp[step]))
    /\ step' = step + 1
    /\ UNCHANGED <<pc, fn, values, na_truthy, mapped_values, impute_heights, delta, temp,
                   exception, result>>

\* line 110 / line 209: the Series that apply has built is returned
ReturnApplied ==
    /\ pc = "loop"
    /\ fn \in {"parse_anchor_year", "parse_bmi"}
    /\ step > Len(values)
    /\ result' = applied
    /\ pc' = "done"
    /\ UNCHANGED <<fn, values, na_truthy, mapped_values, step, impute_heights, delta, temp,
                   applied, exception>>

Next ==
    \/ parse_language
    \/ parse_gender
    \/ parse_race
    \/ parse_insurance
    \/ parse_careunit
    \/ parse_time
    \/ MappingLoop
    \/ TimeLoop
    \/ ReturnMapped
    \/ parse_anchor_year
    \/ ApplyAnchorDelta
    \/ parse_bmi
    \/ ApplyParse
    \/ ReturnApplied

Spec == Init /\ [][Next]_vars

(***************************************************************************)
(* The properties.  Rows(f) are the rows of a finished call of f.          *)
(***************************************************************************)
Done(f) == fn = f /\ pc = "done"

\* the rules of f's table that the present value v matches
Matching(f, v) == {j \in 1..Len(mapping(f)) : re_search(mapping(f)[j].regexp, v)}

Least(S) == CHOOSE x \in S : \A y \in S : x <= y
Greatest(S) == CHOOSE x \in S : \A y \in S : x >= y

C2_DefaultLabel ==
    \A f \in TextParsers :
        Done(f) =>
            \A r \in 1..Len(values) :
                (values[r] = NaN \/ Matching(f, values[r]) = {})
                    => /\ result[r] # "nan"
                       /\ f = "parse_gender" => result[r] = "Other"
                       /\ f = "parse_race" => result[r] = "Unknown"

\* the five buckets as the specification lists them
Buckets ==
    { [start |-> 2008, end |-> 2011, label |-> "2008 - 2011"],
      [start |-> 2011, end |-> 2014, label |-> "2011 - 2014"],
      [start |-> 2014, end |-> 2017, label |-> "2014 - 2017"],
      [start |-> 2017, end |-> 2020, label |-> "2017 - 2020"],
      [start |-> 2020, end |-> 2023, label |-> "2020 - 2023"] }

BucketsOf(d) == {b \in Buckets : b.start <= d /\ d < b.end}

InRange(d) == 2008 <= d /\ d < 2023

\* C3: every delta in [2008,2023) is resolved, without an error, to the
\* label "start - end" of the one bucket with start <= delta < end.
C3_BucketPartition ==
    fn = "parse_anchor_year" =>
        /\ \A r \in 1..Len(applied) :
               InRange(delta[r]) =>
                   /\ Cardinality(BucketsOf(delta[r])) = 1
                   /\ \A b \in BucketsOf(delta[r]) : applied[r] = b.label
        /\ pc = "raised" => ~InRange(delta[step])
        /\ pc = "done" => result = applied /\ Len(result) = Len(delta)

\* C3: a finished call with the deltas 2010 and 2011, on either side of a
\* bucket boundary.
C3_Witness ==
    /\ Done("parse_anchor_year")
    /\ delta = <<2010, 2011>>
    /\ result = <<"2008 - 2011", "2011 - 2014">>

\* C4: a delta below 2008 or at least 2023 is reported as an OutOfRangeError
\* of its row, and the rows of the batch that are in range keep their labels.
C4_OutOfRangeError ==
    (fn = "parse_anchor_year" /\ pc \in {"done", "raised"}) =>
        /\ (\E r \in 1..Len(delta) : ~InRange(delta[r])) => exception = "OutOfRangeError"
        /\ \A r \in 1..Len(delta) :
               InRange(delta[r]) =>
                   /\ r <= Len(result)
                   /\ \A b \in BucketsOf(delta[r]) : result[r] = b.label

\* the first year of each anchor year group
GroupFirstYear(g) ==
    CASE g = "2008 - 2010" -> 2008
      [] g = "2011 - 2013" -> 2011
      [] g = "2014 - 2016" -> 2014
      [] g = "2017 - 2019" -> 2017
      [] g = "2020 - 2022" -> 2020

ScenarioRow ==
    [anchor_year_group |-> "2017 - 2019", date |-> [year |-> 2019, month |-> 7],
     anchor_year |-> 2018]

\* C5 (as stated): for "2017 - 2019", anchor year 2018 and an event in 2019
\* the delta is 2021 and the bucket "2020 - 2023".
C5_ScenarioDelta2021 ==
    (Done("parse_anchor_year") /\ values = <<ScenarioRow>>) =>
        delta = <<2021>> /\ result = <<"2020 - 2023">>

\* C5 (amended): the delta is (first year of the group + 1) + (event year -
\* anchor year); for "2017 - 2019", anchor year 2018 and an event in 2019 it
\* is 2019 and the bucket is "2017 - 2020".
C5_DeltaFormula ==
    fn = "parse_anchor_year" =>
        /\ \A r \in 1..Len(values) :
               delta[r] = (GroupFirstYear(values[r].anchor_year_group) + 1)
                              + (values[r].date.year - values[r].anchor_year)
        /\ (pc = "done" /\ values = <<ScenarioRow>>) =>
               delta = <<2019>> /\ result = <<"2017 - 2020">>

\* C5: the scenario, finished, with the bucket "2017 - 2020".
C5_Witness ==
    /\ Done("parse_anchor_year")
    /\ values = <<ScenarioRow>>
    /\ result = <<"2017 - 2020">>

\* the ethnicity texts of the model that contain "asian" in some casing
\* ("Caucasian" is one of them: c-a-u-c-a-s-i-a-n)
AsianTexts == {"ASIAN", "Asian", "SOUTH EAST ASIAN", "Caucasian"}

\* bmi < t/10 for a BMI that is a number
Below(bmi, t) == bmi.num * 10 < t * bmi.den

TableLabel(bmi, ethnicity) ==
    IF Below(bmi, 165) THEN "Severely Underweight"
    ELSE IF Below(bmi, 185) THEN "Underweight"
    ELSE IF ethnicity \in AsianTexts
         THEN IF Below(bmi, 230) THEN "Normal"
              ELSE IF Below(bmi, 250) THEN "Overweight" ELSE "Obesity"
         ELSE IF Below(bmi, 250) THEN "Normal"
              ELSE IF Below(bmi, 300) THEN "Overweight" ELSE "Obesity"

\* C6: every computable BMI gets the label of the decision table:
\* "Severely Underweight" below 16.5, "Underweight" on [16.5,18.5), and from
\* 18.5 Normal / Overweight / Obesity with the cuts 23 and 25 for an
\* ethnicity containing "asian" and 25 and 30 for any other.
C6_DecisionTable ==
    Done("parse_bmi") =>
        \A r \in 1..Len(temp) :
            ~temp[r].bmi.nan => result[r] = TableLabel(temp[r].bmi, temp[r].race)

\* the table of C6 with the code's spelling of its first label
C6_TableAsSpelled ==
    Done("parse_bmi") =>
        \A r \in 1..Len(temp) :
            ~temp[r].bmi.nan =>
                result[r] = IF Below(temp[r].bmi, 165) THEN "Severly Underweight"
                            ELSE TableLabel(temp[r].bmi, temp[r].race)

\* C7 (as stated): the gender values MALE, Female, unknown give M, F, Other.
C7_GenderScenarioMF ==
    (Done("parse_gender") /\ values = GenderScenario) => result = <<"M", "F", "Other">>

\* C7 (amended): the gender values MALE, Female, unknown give Male, Female,
\* Other: parse_gender returns "Male", "Female" or the default "Other", one
\* label per input value in input order.
C7_GenderLabels ==
    Done("parse_gender") =>
        /\ Len(result) = Len(values)
        /\ \A r \in 1..Len(result) : result[r] \in {"Male", "Female", "Other"}
        /\ \A r \in 1..Len(values) :
               /\ values[r] \in {"MALE", "M"} => result[r] = "Male"
               /\ values[r] \in {"Female", "FEMALE", "F"} => result[r] = "Female"
               /\ values[r] \in {"unknown", "male"} => result[r] = "Other"
        /\ values = GenderScenario => result = <<"Male", "Female", "Other">>

\* C7: the scenario, finished, with the labels Male, Female, Other.
C7_Witness ==
    /\ Done("parse_gender")
    /\ values = GenderScenario
    /\ result = <<"Male", "Female", "Other">>

HasUpper(v) == \E j \in 1..Len(v) : IndexIn(UpperCase, Char(v, j)) > 0
HasLower(v) == \E j \in 1..Len(v) : IndexIn(LowerCase, Char(v, j)) > 0

PresentHeights == {r \in 1..Len(values) : ~values[r].height.nan}

RECURSIVE HeightSum(_)
HeightSum(S) ==
    IF S = {} THEN 0
    ELSE LET r == CHOOSE x \in S : TRUE IN values[r].height.num + HeightSum(S \ {r})

\* the float q is the rational n/d
Equals(q, n, d) == q = Float(n, d)

\* C9: without imputation a row whose height is missing is labelled
\* "Unknown or Unavailable" and the other rows are labelled from their own
\* BMI; with imputation a missing height becomes the mean of the heights
\* that are present before BMI = weight / (height/100)^2 is computed, and a
\* height that is present is kept.
C9_MissingHeight ==
    Done("parse_bmi") =>
        \A r \in 1..Len(values) :
            LET w == values[r].weight
                h == values[r].height
                n == Cardinality(PresentHeights)
                sum == HeightSum(PresentHeights)
            IN  /\ ~h.nan =>
                       /\ temp[r].height = h
                       /\ Equals(temp[r].bmi, w.num * 10000 * h.den * h.den,
                                 w.den * h.num * h.num)
                       /\ result[r] # "Unknown or Unavailable"
                /\ (h.nan /\ ~impute_heights) =>
                       temp[r].bmi.nan /\ result[r] = "Unknown or Unavailable"
                /\ (h.nan /\ impute_heights /\ n > 0) =>
                       /\ Equals(temp[r].height, sum, n)
                       /\ Equals(temp[r].bmi, w.num * 10000 * n * n, w.den * sum * sum)
                       /\ result[r] # "Unknown or Unavailable"
                /\ (h.nan /\ impute_heights /\ n = 0) =>
                       result[r] = "Unknown or Unavailable"
                /\ ~temp[r].bmi.nan => result[r] = parse_row(temp[r])

\* C9: with imputation, a missing height replaced by the mean 160 of the
\* other row's height, and the row labelled from the BMI 45 / 1.6^2.
C9_Witness ==
    /\ Done("parse_bmi")
    /\ impute_heights
    /\ Len(values) = 2
    /\ values[1].height = FNaN
    /\ values[2].height = Float(160, 1)
    /\ values[1].weight = Float(45, 1)
    /\ values[1].race = "WHITE"
    /\ Equals(temp[1].height, 160, 1)
    /\ result[1] = "Underweight"

\* C9: without imputation, the row without height labelled "Unknown or
\* Unavailable" beside a row that has its category.
C9_WitnessNoImputation ==
    /\ Done("parse_bmi")
    /\ ~impute_heights
    /\ Len(values) = 2
    /\ values[1].height = FNaN
    /\ values[2].height = Float(160, 1)
    /\ result[1] = "Unknown or Unavailable"
    /\ result[2] # "Unknown or Unavailable"

\* C10: every hour h of 0..23 gets the label of the half-open range
\* [lo,hi) that holds it, the hours 6, 12 and 18 that two rules match
\* getting the label of the later rule.
C10_HalfOpenHours ==
    Done("parse_time") =>
        \A r \in 1..Len(values) :
            ~values[r].nat =>
                LET h == values[r].hour
                IN  result[r] = IF h < 6 THEN "00-06"
                                ELSE IF h < 12 THEN "06-12"
                                ELSE IF h < 18 THEN "12-18" ELSE "18-24"

\* C10: a finished parse_time of 06:00 and 18:00, hours that two rules match.
C10_Witness ==
    /\ Done("parse_time")
    /\ values = <<Timestamp(6, 0), Timestamp(18, 0)>>
    /\ result = <<"06-12", "18-24">>

=============================================================================
